---- MODULE Spec2Model ----
(***************************************************************************)
(* A model of app/main.py of the flight API: the /flights lookup handler   *)
(* (get_flights), the fetch-and-aggregate coroutine (fetch_flight_data),   *)
(* the lazily created aiohttp session pool (get_session_pool), the         *)
(* start-up and shut-down hooks and the /health handler, together with the *)
(* cachetools.TTLCache named flights_cache that the handlers share.        *)
(*                                                                         *)
(* Strings are sequences of one-character strings, so that len(), upper()  *)
(* and lower() are computed and not assumed.  Time is a discrete clock     *)
(* `now` (the monotonic timer the cache and the client time-out read).     *)
(* The settings CACHE_TTL, CACHE_MAXSIZE, CONCURRENT_REQUESTS and the      *)
(* client time-out keep their names; their values are scaled down (the     *)
(* source has 300 s, 100 entries, 10 connections and 60 s).                *)
(***************************************************************************)
EXTENDS Integers, Sequences, FiniteSets, Bags, TLC

\* ------------------------------------------------------------------ bounds
NumRequests == 2        \* lookups that can be open at once
MaxTime == 3            \* the clock runs 0..MaxTime

\* ---------------------------------------------------------------- settings
CACHE_TTL == 2              \* Settings.CACHE_TTL (300 in the source)
CACHE_MAXSIZE == 2          \* Settings.CACHE_MAXSIZE (100 in the source)
CONCURRENT_REQUESTS == 1    \* Settings.CONCURRENT_REQUESTS (10 in the source)
CLIENT_TIMEOUT == 1         \* aiohttp.ClientTimeout(total=60)

\* ----------------------------------------------------------------- strings
\* str.upper() and str.lower() on the characters the inputs use; a character
\* that is not a cased letter is left as it is.
UpperChar(c) ==
  CASE c = "j" -> "J" [] c = "f" -> "F" [] c = "k" -> "K"
    [] c = "l" -> "L" [] c = "a" -> "A" [] c = "x" -> "X"
    [] OTHER -> c

LowerChar(c) ==
  CASE c = "J" -> "j" [] c = "F" -> "f" [] c = "K" -> "k"
    [] c = "L" -> "l" [] c = "A" -> "a" [] c = "X" -> "x"
    [] OTHER -> c

\* A key made of the code as it was posted.
UpperAsPosted(s) == s

Upper(s) == [i \in 1..Len(s) |-> UpperChar(s[i])]
Lower(s) == [i \in 1..Len(s) |-> LowerChar(s[i])]

\* The form field values a caller may post to /flights.
Inputs ==
  { <<"J", "F">>,
    <<"j", "f", "k">>,
    <<"J", "F", "K">>,
    <<"L", "A", "X">>,
    <<"1", "2", "3">>,
    <<"J", "F", "K", " ">> }

\* A length test that only turns away what is too long.
ValidLengthNoLowerBound(code) == Len(code) <= 3

\* len(airport_code) != 3 is what get_flights rejects (line 160).
ValidLength(code) == Len(code) = 3

\* cache_key = f"flights_{airport_code}"
CacheKey(airport_code) == <<"flights_">> \o airport_code

\* -------------------------------------------------------------- exceptions
\* A raised Python exception: its class, what its message says and the
\* airport code the message carries (<<>> when it carries none).
Exc(type, msg, code) == [type |-> type, msg |-> msg, code |-> code]
NoExc == Exc("", "", <<>>)

\* The classes the handlers of get_flights tell apart.  JSONDecodeError
\* derives from ValueError; TimeoutError is asyncio.TimeoutError.
IsValueError(e) == e.type \in {"ValueError", "JSONDecodeError"}
IsTimeoutError(e) == e.type = "TimeoutError"

\* ------------------------------------------------------------- JSON values
\* A parsed JSON value: null, a string, a list or a dict (a function from
\* its keys to values).  Raised(e) is not a value: it stands for the
\* exception e raised while a chained expression is evaluated.
JNull == [t |-> "null", v |-> <<>>]
JStr(s) == [t |-> "str", v |-> s]
JList(items) == [t |-> "list", v |-> items]
JDict(kv) == [t |-> "dict", v |-> kv]
EmptyDict == JDict(<<>>)
Raised(e) == [t |-> "raise", v |-> e]

\* node.get(key, default): only a dict has .get; on anything else Python
\* raises AttributeError.  An exception raised earlier in the chain is kept.
Get(node, key, default) ==
  IF node.t = "raise" THEN node
  ELSE IF node.t = "dict"
       THEN IF key \in DOMAIN node.v THEN node.v[key] ELSE default
       ELSE Raised("AttributeError")

\* item.get('airport', {}).get('pluginData', {}).get('schedule', {})
\*     .get('arrivals', {}).get('data', [])
FlightsData(item) ==
  Get(Get(Get(Get(Get(item, "airport", EmptyDict),
                  "pluginData", EmptyDict),
              "schedule", EmptyDict),
          "arrivals", EmptyDict),
      "data", JList(<<>>))

\* flight.get('flight', {}).get('airport', {}).get('origin', {})
\*     .get('position', {}).get('country', {}).get('name')
CountryName(flight) ==
  Get(Get(Get(Get(Get(Get(flight, "flight", EmptyDict),
                      "airport", EmptyDict),
                  "origin", EmptyDict),
              "position", EmptyDict),
          "country", EmptyDict),
      "name", JNull)

\* bool(value) as `if country_name:` takes it.
Truthy(node) ==
  CASE node.t = "null" -> FALSE
    [] node.t = "str" -> node.v # ""
    [] node.t = "list" -> Len(node.v) > 0
    [] node.t = "dict" -> DOMAIN node.v # {}
    [] OTHER -> FALSE

\* country_flights[country_name] += 1 on a defaultdict(int), kept as the
\* sequence of its items in insertion order (a dict keeps that order).
Increment(counts, name) ==
  IF \E i \in 1..Len(counts) : counts[i][1] = name
  THEN [i \in 1..Len(counts) |->
          IF counts[i][1] = name THEN <<name, counts[i][2] + 1>> ELSE counts[i]]
  ELSE Append(counts, <<name, 1>>)

\* The state of the two loops: the exception raised so far ("" for none)
\* and country_flights.
Acc(err, counts) == [err |-> err, counts |-> counts]

\* One pass of the inner loop body (lines 117-125) for one flight.
CountFlight(acc, flight) ==
  LET name == CountryName(flight) IN
  IF acc.err # "" THEN acc
  ELSE IF name.t = "raise" THEN Acc(name.v, acc.counts)
  ELSE IF ~Truthy(name) THEN acc
  ELSE IF name.t = "str" THEN Acc("", Increment(acc.counts, name.v))
  ELSE Acc("TypeError", acc.counts)       \* a list or dict key is unhashable

RECURSIVE CountFlights(_, _)
CountFlights(acc, flights) ==
  IF flights = <<>> \/ acc.err # "" THEN acc
  ELSE CountFlights(CountFlight(acc, Head(flights)), Tail(flights))

\* `for flight in flights_data`: a list yields its elements; a dict yields
\* its keys and a string its characters, which are strings and have no
\* .get; None is not iterable.
ForFlights(acc, flights_data) ==
  CASE flights_data.t = "raise" -> Acc(flights_data.v, acc.counts)
    [] flights_data.t = "list" -> CountFlights(acc, flights_data.v)
    [] flights_data.t = "dict" ->
         IF DOMAIN flights_data.v = {} THEN acc
         ELSE Acc("AttributeError", acc.counts)
    [] flights_data.t = "str" ->
         IF flights_data.v = "" THEN acc ELSE Acc("AttributeError", acc.counts)
    [] OTHER -> Acc("TypeError", acc.counts)

\* The outer loop `for item in data` (lines 109-125).
RECURSIVE ForItems(_, _)
ForItems(acc, items) ==
  IF items = <<>> \/ acc.err # "" THEN acc
  ELSE ForItems(ForFlights(acc, FlightsData(Head(items))), Tail(items))

\* A sort that puts an item before the items of its own count.
InsertSortedTiesFirst(sorted, item) ==
  LET after == {i \in 1..Len(sorted) : sorted[i][2] > item[2]}
      k == Cardinality(after)
  IN SubSeq(sorted, 1, k) \o <<item>> \o SubSeq(sorted, k + 1, Len(sorted))

\* sorted(country_flights.items(), key=lambda x: x[1], reverse=True): a
\* stable sort, so items with equal counts keep their order.
InsertSorted(sorted, item) ==
  LET after == {i \in 1..Len(sorted) : sorted[i][2] >= item[2]}
      k == Cardinality(after)
  IN SubSeq(sorted, 1, k) \o <<item>> \o SubSeq(sorted, k + 1, Len(sorted))

RECURSIVE SortedItems(_)
SortedItems(counts) ==
  IF counts = <<>> THEN <<>>
  ELSE InsertSorted(SortedItems(SubSeq(counts, 1, Len(counts) - 1)),
                    counts[Len(counts)])

\* What a call returns: the exception it raised (NoExc for none) and, when
\* it raised none, the value.
Returned(value) == [exc |-> NoExc, value |-> value]
Raises(e) == [exc |-> e, value |-> <<>>]

\* Lines 107-134 of fetch_flight_data: the counting loops over the parsed
\* body, the ValueError for an empty count and the ranked result.
Aggregate(data, airport_code) ==
  LET acc == IF data.t = "list" THEN ForItems(Acc("", <<>>), data.v)
             ELSE Acc("", <<>>)
  IN IF acc.err # "" THEN Raises(Exc(acc.err, "", <<>>))
     ELSE IF acc.counts = <<>>
          THEN Raises(Exc("ValueError", "No flight data found for airport code", airport_code))
          ELSE Returned(SortedItems(acc.counts))

\* ------------------------------------------------------- cachetools.TTLCache
\* flights_cache = TTLCache(maxsize=CACHE_MAXSIZE, ttl=CACHE_TTL) is kept as
\* the sequence of its links in the order of the cache's OrderedDict: the
\* first is the least recently used.  A link holds its key, the value
\* stored under it and the time it expires; `stored`, the time of the
\* write, and `by`, the airport code as posted by the request that wrote
\* it, are history the cache does not keep.  The cache's second list,
\* the links in expiry order, needs no copy: every link is appended with
\* time + ttl of a clock that never runs back, so the links that
\* expire(time) unlinks from its front are those with expires <= time.
Link(key, value, expires, stored) ==
  [key |-> key, value |-> value, expires |-> expires, stored |-> stored,
   by |-> <<>>]

HasLink(cache, key) == \E i \in 1..Len(cache) : cache[i].key = key
LinkOf(cache, key) == cache[CHOOSE i \in 1..Len(cache) : cache[i].key = key]
Without(cache, key) == SelectSeq(cache, LAMBDA l : l.key # key)

\* A membership test that still takes a link at the moment it expires.
ContainsInclusive(cache, key, time) ==
  HasLink(cache, key) /\ time <= LinkOf(cache, key).expires

\* TTLCache.__contains__: timer() < link.expires; the order is not touched.
Contains(cache, key, time) ==
  HasLink(cache, key) /\ time < LinkOf(cache, key).expires

\* TTLCache.expire(time)
Expire(cache, time) == SelectSeq(cache, LAMBDA l : time < l.expires)

\* A read that leaves the order alone: first in, first out.
GetItemCacheNoTouch(cache, key) == cache

\* TTLCache.__getitem__: the link is moved to the end of the order, then a
\* link that is absent or expired raises KeyError (Cache.__missing__).
GetItemCache(cache, key) ==
  IF HasLink(cache, key)
  THEN Append(Without(cache, key), LinkOf(cache, key))
  ELSE cache

GetItem(cache, key, time) ==
  IF Contains(cache, key, time)
  THEN Returned(LinkOf(cache, key).value)
  ELSE Raises(Exc("KeyError", "", key))

\* A write that never pops.
MakeNoRoom(cache) == cache

\* Cache.__setitem__ makes room for a new key: popitem() until one more
\* item fits, and TTLCache.popitem() pops the first key of the order.
RECURSIVE MakeRoom(_)
MakeRoom(cache) ==
  IF Len(cache) + 1 > CACHE_MAXSIZE /\ cache # <<>>
  THEN MakeRoom(Tail(cache))
  ELSE cache

\* TTLCache.__setitem__: expire(time); room is made when the key is new;
\* the link goes to the end of the order and expires at time + ttl.
SetItem(cache, key, value, time) ==
  LET live == Expire(cache, time)
      room == IF HasLink(live, key) THEN live ELSE MakeRoom(live)
  IN Append(Without(room, key), Link(key, value, time + CACHE_TTL, time))

\* len(flights_cache) and flights_cache.currsize: both expire first.
CurrSize(cache, time) == Len(Expire(cache, time))

\* The cache_size and cache_info that health_check reports at time.
HealthReport(cache, time) ==
  [cache_size |-> CurrSize(cache, time),
   current_size |-> CurrSize(cache, time),
   maxsize |-> CACHE_MAXSIZE,
   ttl |-> CACHE_TTL]

\* ---------------------------------------------------------- upstream replies
\* Nest(path, leaf): the dicts that hold leaf under the keys of path.
RECURSIVE Nest(_, _)
Nest(path, leaf) ==
  IF path = <<>> THEN leaf
  ELSE JDict([k \in {Head(path)} |-> Nest(Tail(path), leaf)])

ElementPath == <<"airport", "pluginData", "schedule", "arrivals", "data">>
FlightPath == <<"flight", "airport", "origin", "position", "country", "name">>

\* An arrival record whose origin country is name, and an airport object
\* whose arrivals are flights.
Flight(name) == Nest(FlightPath, JStr(name))
Element(flights) == Nest(ElementPath, JList(flights))

\* A body that json() cannot parse.
Unparseable == [t |-> "unparseable", v |-> <<>>]

\* What the provider may answer to one call: no connection at all
\* (status 0), or a status with a body that parses to json or does not.
Reply(status, json) == [status |-> status, json |-> json]

Bodies ==
  { JList(<<Element(<<Flight("Spain"), Flight("France"), Flight("France")>>)>>),
    JList(<<Element(<<Flight("Spain")>>)>>),
    JList(<<>>),
    JList(<<JNull>>) }

Replies ==
  {Reply(0, Unparseable), Reply(500, Unparseable), Reply(200, Unparseable)}
    \cup {Reply(200, b) : b \in Bodies}

\* fetch_flight_data once the connection is held (lines 95-143): a failed
\* connection and raise_for_status() raise an aiohttp.ClientError,
\* response.json() raises json.JSONDecodeError on a body that does not
\* parse, and a parsed body is aggregated.  The except clauses log and
\* raise again.
FetchFlightData(reply, airport_code) ==
  IF reply.status = 0 THEN Raises(Exc("ClientError", "connection", <<>>))
  ELSE IF reply.status >= 400 THEN Raises(Exc("ClientError", "status", <<>>))
  ELSE IF reply.json.t = "unparseable"
       THEN Raises(Exc("JSONDecodeError", "Expecting value", <<>>))
       ELSE Aggregate(reply.json, airport_code)

\* ------------------------------------------------------------ the response
\* What get_flights hands to the template: the flights of a successful
\* lookup, or the except clause that answered (lines 190-205) with the
\* exception it caught.
NoResponse == [handler |-> "none", exc |-> NoExc, flights |-> <<>>]

TemplateResponse(result) ==
  IF result.exc = NoExc
  THEN [handler |-> "", exc |-> NoExc, flights |-> result.value]
  ELSE IF IsValueError(result.exc)
  THEN [handler |-> "ValueError", exc |-> result.exc, flights |-> <<>>]
  ELSE IF IsTimeoutError(result.exc)
  THEN [handler |-> "TimeoutError", exc |-> result.exc, flights |-> <<>>]
  ELSE [handler |-> "Exception", exc |-> result.exc, flights |-> <<>>]

\* ------------------------------------------------------------------- state
\* A request to /flights: where it is, the form field airport_code as
\* posted, the local airport_code after upper(), the iata parameter of the
\* query of its upstream call (<<>> while it has none), the session it got from
\* get_session_pool (0 for none), the time the client time-out of its call
\* fires, its answer, how many upstream calls, cache reads (membership
\* tests and reads) and cache writes it has made, the links its write
\* pushed out of the cache before they expired, and the live link of its own
\* key that its write took the place of.
NoRequest ==
  [pc |-> "none", input |-> <<>>, airport_code |-> <<>>, iata |-> <<>>, session |-> 0,
   deadline |-> 0, response |-> NoResponse, calls |-> 0, reads |-> 0, writes |-> 0,
   evicted |-> {}, replaced |-> {}]

VARIABLES
  now,            \* the clock
  phase,          \* "init", "serving" (start-up hook has run) or "stopped"
  session_pool,   \* the global: 0 for None, else the number of the session
  sessions,       \* how many ClientSession objects were created
  closed,         \* the sessions that were closed
  flights_cache,  \* the TTLCache
  open,           \* the bag of the requests that are suspended
  finished,       \* the request that has its answer, or NoRequest
  aggIn,          \* the body given to the aggregation on its own
  aggOut          \* and what it returned

reqVars == <<open, finished>>
aggVars == <<aggIn, aggOut>>
poolVars == <<session_pool, sessions, closed>>
vars == <<now, phase, poolVars, flights_cache, reqVars, aggVars>>

Init ==
  /\ now = 0
  /\ phase = "init"
  /\ session_pool = 0
  /\ sessions = 0
  /\ closed = {}
  /\ flights_cache = <<>>
  /\ open = EmptyBag
  /\ finished = NoRequest
  /\ aggIn = JNull
  /\ aggOut = Raises(NoExc)

Requests == BagToSet(open)
One(q) == SetToBag({q})

\* ---------------------------------------------------------------- the pool
\* A get_session_pool that makes a session at every call.
GetSessionPoolAnew(pool, created) ==
  [session_pool |-> created + 1, sessions |-> created + 1]

\* get_session_pool (lines 56-68): the global is set on the first call only;
\* the coroutine has no await between the test and the assignment.
GetSessionPool(pool, created) ==
  IF pool = 0
  THEN [session_pool |-> created + 1, sessions |-> created + 1]
  ELSE [session_pool |-> pool, sessions |-> created]

\* How many calls hold a connection of session s.
Holding(s) ==
  BagCardinality([q \in {x \in Requests : x.pc = "inflight" /\ x.session = s}
                    |-> CopiesIn(q, open)])

\* A connector without a limit.
AlwaysFreeSlot(s) == TRUE

\* TCPConnector(limit=CONCURRENT_REQUESTS): a connection is handed out
\* while fewer than limit are out.
HasFreeSlot(s) == Holding(s) < CONCURRENT_REQUESTS

\* A time-out that may fire at once.
TimedOutAtOnce(q) == TRUE

\* A call without a time-out.
TimedOutNever(q) == FALSE

\* ClientTimeout(total=...): the timer of a call runs from the moment
\* session.get is entered, the wait for a connection included.
TimedOut(q) == now >= q.deadline

\* A handler that has its answer returns it before anything else runs: the
\* return follows in the same step of the event loop.
NoneDone == finished = NoRequest

\* Between the membership test and the read of a hit (lines 166-172) there
\* is no await: no other handler runs, only the clock.
LoopFree == NoneDone /\ \A q \in Requests : q.pc # "hit"

\* The links that have not expired at time, and the keys that have a link.
LiveLinks(cache, time) == {cache[i] : i \in {j \in 1..Len(cache) : time < cache[j].expires}}
Keys(cache) == {cache[i].key : i \in 1..Len(cache)}

\* A handler that stores whatever came back, raised or returned.
StoreResultAlways(cache, key, result, time) ==
  [cache |-> SetItem(cache, key, result.value, time), writes |-> 1]

\* A handler that leaves a live entry of the key as it is.
StoreResultIfAbsent(cache, key, result, time) ==
  IF result.exc = NoExc /\ ~Contains(cache, key, time)
  THEN [cache |-> SetItem(cache, key, result.value, time), writes |-> 1]
  ELSE [cache |-> cache, writes |-> 0]

\* Lines 178-179: the assignment to the cache runs only when
\* fetch_flight_data returned; an exception skips it.  The cache after
\* the two lines, and how many writes were made.
StoreResult(cache, key, result, time) ==
  IF result.exc = NoExc
  THEN [cache |-> SetItem(cache, key, result.value, time), writes |-> 1]
  ELSE [cache |-> cache, writes |-> 0]

\* The cache after the writes of a request that posted input: its link, the
\* last of the order, is marked as written by that request.
WrittenBy(cache, writes, input) ==
  IF writes = 0 THEN cache ELSE [cache EXCEPT ![Len(cache)].by = input]

\* params of session.get (lines 98-102): the query of the upstream call.
QueryParams(airport_code) ==
  [mode |-> "arrivals", day |-> "1", iata |-> Lower(airport_code)]

\* ----------------------------------------------------------------- actions
\* @app.on_event("startup"): the server runs it before it takes requests.
Startup ==
  /\ LoopFree
  /\ phase = "init"
  /\ LET got == GetSessionPool(session_pool, sessions) IN
       /\ session_pool' = got.session_pool
       /\ sessions' = got.sessions
  /\ phase' = "serving"
  /\ UNCHANGED <<now, closed, flights_cache, reqVars, aggVars>>

\* @app.on_event("shutdown"): the server runs it once no request is open.
Shutdown ==
  /\ LoopFree
  /\ phase = "serving"
  /\ open = EmptyBag
  /\ closed' = IF session_pool # 0 THEN closed \cup {session_pool} ELSE closed
  /\ phase' = "stopped"
  /\ UNCHANGED <<now, session_pool, sessions, flights_cache, reqVars, aggVars>>

\* get_flights from its entry to its first suspension (lines 159-178): the
\* length test, upper(), the membership test and, on a miss,
\* get_session_pool and the entry of session.get.
GetFlights(code) ==
  /\ LoopFree
  /\ BagCardinality(open) < NumRequests
  /\ LET new == [NoRequest EXCEPT !.input = code] IN
     IF ~ValidLength(code)
     THEN /\ finished' = [new EXCEPT
                 !.pc = "done",
                 !.response = TemplateResponse(Raises(
                    Exc("ValueError", "Please enter a valid 3-letter airport code", <<>>)))]
          /\ UNCHANGED <<open, poolVars>>
     ELSE LET valid == [new EXCEPT !.airport_code = Upper(code), !.reads = 1] IN
          IF Contains(flights_cache, CacheKey(Upper(code)), now)
          THEN /\ open' = open (+) One([valid EXCEPT !.pc = "hit"])
               /\ UNCHANGED <<finished, poolVars>>
          ELSE LET got == GetSessionPool(session_pool, sessions) IN
               /\ session_pool' = got.session_pool
               /\ sessions' = got.sessions
               /\ open' = open (+) One([valid EXCEPT
                                          !.pc = "connecting",
                                          !.iata = QueryParams(Upper(code)).iata,
                                          !.session = got.session_pool,
                                          !.deadline = now + CLIENT_TIMEOUT])
               /\ UNCHANGED <<finished, closed>>
  /\ UNCHANGED <<now, phase, flights_cache, aggVars>>

\* A request to /flights that the server takes once its start-up is done.
Lookup(code) == phase = "serving" /\ GetFlights(code)

\* A request to /flights handled before the start-up hook has run (the
\* application driven without its lifespan, or before it).
EarlyLookup(code) == phase = "init" /\ GetFlights(code)

\* The cache hit (lines 167-175): flights_cache[cache_key] is read at the
\* time of the read, not of the membership test.
CacheHit(q) ==
  /\ NoneDone
  /\ q.pc = "hit"
  /\ LET key == CacheKey(q.airport_code) IN
       /\ finished' = [q EXCEPT
             !.pc = "done",
             !.reads = @ + 1,
             !.response = TemplateResponse(GetItem(flights_cache, key, now))]
       /\ flights_cache' = GetItemCache(flights_cache, key)
  /\ open' = open (-) One(q)
  /\ UNCHANGED <<now, phase, poolVars, aggVars>>

\* A client that sends the request a second time.
ConnectAndSendAgain(q) ==
  /\ LoopFree
  /\ q.pc = "connecting"
  /\ HasFreeSlot(q.session)
  /\ open' = (open (-) One(q)) (+) One([q EXCEPT !.pc = "inflight", !.calls = @ + 2])
  /\ UNCHANGED <<now, phase, poolVars, flights_cache, finished, aggVars>>

\* session.get is given a connection of the pool and the request goes out.
Connect(q) ==
  /\ LoopFree
  /\ q.pc = "connecting"
  /\ HasFreeSlot(q.session)
  /\ open' = (open (-) One(q)) (+) One([q EXCEPT !.pc = "inflight", !.calls = @ + 1])
  /\ UNCHANGED <<now, phase, poolVars, flights_cache, finished, aggVars>>

\* The provider answers: fetch_flight_data returns or raises, the
\* connection goes back to the pool, and get_flights stores a returned
\* result (line 179) and answers (lines 181-205).
Answer(q, reply) ==
  /\ LoopFree
  /\ q.pc = "inflight"
  /\ LET result == FetchFlightData(reply, q.airport_code)
         stored == StoreResult(flights_cache, CacheKey(q.airport_code), result, now)
     IN /\ flights_cache' = WrittenBy(stored.cache, stored.writes, q.input)
        /\ finished' = [q EXCEPT
              !.pc = "done",
              !.writes = @ + stored.writes,
              !.evicted = {l \in LiveLinks(flights_cache, now) : l.key \notin Keys(stored.cache)},
              !.replaced = {l \in LiveLinks(flights_cache, now) :
                              stored.writes = 1 /\ l.key = CacheKey(q.airport_code)},
              !.response = TemplateResponse(result)]
  /\ open' = open (-) One(q)
  /\ UNCHANGED <<now, phase, poolVars, aggVars>>

\* The client time-out fires: asyncio.TimeoutError is raised in
\* session.get, whether the call waits for a connection or for the answer.
Timeout(q) ==
  /\ LoopFree
  /\ q.pc \in {"connecting", "inflight"}
  /\ TimedOut(q)
  /\ finished' = [q EXCEPT
        !.pc = "done",
        !.response = TemplateResponse(Raises(Exc("TimeoutError", "", <<>>)))]
  /\ open' = open (-) One(q)
  /\ UNCHANGED <<now, phase, poolVars, flights_cache, aggVars>>

\* The response has been sent.
Return ==
  /\ finished # NoRequest
  /\ finished' = NoRequest
  /\ UNCHANGED <<now, phase, poolVars, flights_cache, open, aggVars>>

\* health_check (lines 208-222): len() and currsize expire the cache.
HealthCheck ==
  /\ LoopFree
  /\ phase = "serving"
  /\ flights_cache' = Expire(flights_cache, now)
  /\ UNCHANGED <<now, phase, poolVars, reqVars, aggVars>>

\* Time passes; a time-out that is due fires before the clock moves on.
Tick ==
  /\ NoneDone
  /\ now < MaxTime
  /\ \A q \in Requests : q.pc \in {"connecting", "inflight"} => ~TimedOut(q)
  /\ now' = now + 1
  /\ UNCHANGED <<phase, poolVars, flights_cache, reqVars, aggVars>>

Next ==
  \/ Startup
  \/ Shutdown
  \/ \E code \in Inputs : Lookup(code)
  \/ \E q \in Requests : CacheHit(q)
  \/ \E q \in Requests : Connect(q)
  \/ \E q \in Requests, reply \in Replies : Answer(q, reply)
  \/ \E q \in Requests : Timeout(q)
  \/ Return
  \/ HealthCheck
  \/ Tick

Spec == Init /\ [][Next]_vars

\* The application with requests also handled before its start-up hook.
LazyNext ==
  \/ Next
  \/ \E code \in Inputs : EarlyLookup(code)

LazySpec == Init /\ [][LazyNext]_vars

\* The application over the window of time 0..MaxTime, for what it does in
\* the end: no request arrives at the last instant of the window, and
\*   - time goes on (finitely many steps are taken in one instant),
\*   - the event loop runs the timer of a time-out that is due,
\*   - a handler that is ready to run (the read of a hit, the return of a
\*     response) runs.
\* Neither the answer of the provider nor the grant of a connection is
\* assumed to come.
Arrival(code) == now < MaxTime /\ Lookup(code)

LiveNext ==
  \/ Startup
  \/ Shutdown
  \/ \E code \in Inputs : Arrival(code)
  \/ \E q \in Requests : CacheHit(q)
  \/ \E q \in Requests : Connect(q)
  \/ \E q \in Requests, reply \in Replies : Answer(q, reply)
  \/ \E q \in Requests : Timeout(q)
  \/ Return
  \/ HealthCheck
  \/ Tick

Fairness ==
  /\ SF_vars(Tick)
  /\ SF_vars(\E q \in Requests : Timeout(q))
  /\ WF_vars(\E q \in Requests : CacheHit(q))
  /\ WF_vars(Return)

LiveSpec == Init /\ [][LiveNext]_vars /\ Fairness

\* ------------------------------------------------- the aggregation on its own
MaxFlights == 2         \* arrival records in one airport object

\* A json value where a dict or a list is expected, or in place of a name.
BadNodes == {JNull, JStr("x"), JStr(""), JList(<<>>), EmptyDict}

\* The values that hold node under the first k keys of path, k = 0 .. Len.
Broken(path, nodes) ==
  {Nest(SubSeq(path, 1, k), b) : k \in 0..Len(path), b \in nodes}

Records == {Flight("France"), Flight("Spain")} \cup Broken(FlightPath, BadNodes)

RECURSIVE SeqsUpTo(_, _)
SeqsUpTo(S, n) ==
  IF n = 0 THEN {<<>>}
  ELSE LET shorter == SeqsUpTo(S, n - 1)
       IN shorter \cup {Append(q, x) : q \in shorter, x \in S}

Elements ==
  Broken(ElementPath, BadNodes)
    \cup {Element(<<r>>) : r \in {Flight("France"), Flight("Spain"), Flight("")}}

\* The bodies the aggregation is tried on: one airport object with up to
\* MaxFlights records, sound or broken at any step; two airport objects,
\* sound or broken at any step; longer runs of sound records of three
\* countries; and bodies that are no list.
RawResponses ==
  {JList(<<Element(fs)>>) : fs \in SeqsUpTo(Records, MaxFlights)}
    \cup {JList(<<e1, e2>>) : e1 \in Elements, e2 \in Elements}
    \cup {JList(<<Element(fs)>>) :
            fs \in SeqsUpTo({Flight("France"), Flight("Spain"), Flight("Italy")},
                            MaxFlights + 2)}
    \cup {JList(<<>>), JNull, JStr("x"), EmptyDict, Element(<<Flight("France")>>)}

Pending == Raises(Exc("pending", "", <<>>))

AggInit ==
  /\ now = 0
  /\ phase = "init"
  /\ session_pool = 0
  /\ sessions = 0
  /\ closed = {}
  /\ flights_cache = <<>>
  /\ open = EmptyBag
  /\ finished = NoRequest
  /\ aggIn \in [data : RawResponses, airport_code : {<<"J", "F", "K">>, <<"L", "A", "X">>}]
  /\ aggOut = Pending

\* The body is aggregated as fetch_flight_data does it after json().
AggregateBody ==
  /\ aggOut = Pending
  /\ aggOut' = Aggregate(aggIn.data, aggIn.airport_code)
  /\ UNCHANGED <<now, phase, poolVars, flights_cache, reqVars, aggIn>>

AggNext == AggregateBody

AggSpec == AggInit /\ [][AggNext]_vars

\* ================================================================== claims
\* The vocabulary of the claims.
Letters == {"J", "F", "K", "L", "A", "X", "j", "f", "k", "l", "a", "x"}

RECURSIVE TrimLeft(_)
TrimLeft(s) == IF s # <<>> /\ Head(s) = " " THEN TrimLeft(Tail(s)) ELSE s

RECURSIVE TrimRight(_)
TrimRight(s) ==
  IF s # <<>> /\ s[Len(s)] = " " THEN TrimRight(SubSeq(s, 1, Len(s) - 1)) ELSE s

Trim(s) == TrimRight(TrimLeft(s))

\* Exactly 3 alphabetic characters after trimming.
WellFormedCode(s) == Len(Trim(s)) = 3 /\ \A i \in 1..Len(Trim(s)) : Trim(s)[i] \in Letters

InvalidAirportCode(resp) ==
  /\ resp.handler = "ValueError"
  /\ resp.exc = Exc("ValueError", "Please enter a valid 3-letter airport code", <<>>)

NoDataFound(exc, code) ==
  exc = Exc("ValueError", "No flight data found for airport code", code)

ErrorResponse(resp) == resp.handler \in {"ValueError", "TimeoutError", "Exception"}
Succeeded(q) == q.pc = "done" /\ q.response.handler = ""

\* Every request of the state, suspended or finished.
AllRequests == Requests \cup (IF finished = NoRequest THEN {} ELSE {finished})

\* In this step a request finishes, and q is that request as it finished.
Finishes(q) == finished = NoRequest /\ finished' # NoRequest /\ q = finished'

\* The request took the hit branch: membership test and read.
TookHitBranch(q) == q.pc = "done" /\ q.reads = 2
\* The request took the miss branch and so asked the pool for a connection.
TookMissBranch(q) == q.pc = "done" /\ q.reads = 1

\* The key has an entry written less than CACHE_TTL ago.
Fresh(cache, key, time) ==
  \E i \in 1..Len(cache) : cache[i].key = key /\ time - cache[i].stored < CACHE_TTL

LinkSet(cache) == {cache[i] : i \in 1..Len(cache)}
KeyOrder(cache) == [i \in 1..Len(cache) |-> cache[i].key]
LiveOrder(cache, time) == KeyOrder(Expire(cache, time))
Range(seq) == {seq[i] : i \in 1..Len(seq)}
Remove(seq, x) == SelectSeq(seq, LAMBDA y : y # x)

\* How many calls hold a connection, whatever the session.
InFlight ==
  BagCardinality([q \in {x \in Requests : x.pc = "inflight"} |-> CopiesIn(q, open)])

\* C1: a lookup whose input, trimmed, is not exactly 3 alphabetic characters
\* fails with InvalidAirportCode and makes no cache read, no cache write and
\* no upstream call.
C1_MalformedRejected ==
  \A q \in AllRequests :
    ~WellFormedCode(q.input) =>
      /\ q.pc = "done"
      /\ InvalidAirportCode(q.response)
      /\ q.reads = 0 /\ q.writes = 0 /\ q.calls = 0

\* C2: a lookup whose input has a length other than 3 ends with the
\* invalid-airport-code error in the step that starts it, and leaves the
\* upstream calls and the cache as they were; no such lookup is ever
\* suspended.
C2_WrongLengthRejected ==
  [][/\ \A q \in BagToSet(open') : Len(q.input) = 3
     /\ \A q \in {finished'} :
          (Finishes(q) /\ Len(q.input) # 3) =>
            /\ InvalidAirportCode(q.response)
            /\ q.calls = 0 /\ q.reads = 0 /\ q.writes = 0
            /\ open' = open
            /\ flights_cache' = flights_cache]_vars

C2_Witness ==
  /\ finished.pc = "done"
  /\ Len(finished.input) = 2
  /\ InvalidAirportCode(finished.response)
  /\ flights_cache # <<>>

\* C3: a lookup whose membership test found the entry of its code (written
\* by an earlier lookup, younger than the TTL, not evicted) issues no
\* upstream call and returns the ranked result the cache holds.
C3_HitReturnsCached ==
  TookHitBranch(finished) =>
    /\ finished.calls = 0
    /\ finished.response.handler = ""
    /\ HasLink(flights_cache, CacheKey(finished.airport_code))
    /\ finished.response.flights =
         LinkOf(flights_cache, CacheKey(finished.airport_code)).value

\* C4: a lookup is answered from the cache only if the entry of its key was
\* written less than CACHE_TTL ago, and a lookup that starts when the entry
\* is that old or older (or absent) goes to the upstream, whether or not the
\* expired entry is still held.
C4_OnlyFreshEntriesHit ==
  [][/\ \A q \in BagToSet(open') :
          (/\ CopiesIn(q, open') > CopiesIn(q, open)
           /\ q.calls = 0
           /\ ~Fresh(flights_cache, CacheKey(q.airport_code), now))
            => q.pc = "connecting"
     /\ \A q \in {finished'} :
          (Finishes(q) /\ TookHitBranch(q) /\ Succeeded(q)) =>
            Fresh(flights_cache, CacheKey(q.airport_code), now)]_vars

C4_Witness ==
  \E q \in Requests :
    /\ q.pc = "connecting"
    /\ HasLink(flights_cache, CacheKey(q.airport_code))
    /\ now - LinkOf(flights_cache, CacheKey(q.airport_code)).stored >= CACHE_TTL

\* C5: a lookup that ends in an error writes nothing: the links of the cache
\* and the order of the live ones are what they were; and a link appears in
\* the cache only in the step in which a lookup returns the result of a
\* successful upstream call, and holds that result.
C5_NoNegativeCaching ==
  [][/\ \A q \in {finished'} :
          (Finishes(q) /\ ErrorResponse(q.response)) =>
            /\ q.writes = 0
            /\ LinkSet(flights_cache') = LinkSet(flights_cache)
            /\ Expire(flights_cache', now) = Expire(flights_cache, now)
     /\ \A l \in LinkSet(flights_cache') \ LinkSet(flights_cache) :
          /\ Finishes(finished')
          /\ Succeeded(finished')
          /\ finished'.calls = 1 /\ finished'.writes = 1
          /\ l.key = CacheKey(finished'.airport_code)
          /\ l.value = finished'.response.flights
          /\ l.value # <<>>]_vars

C5_Witness ==
  /\ finished.pc = "done"
  /\ finished.calls = 1
  /\ NoDataFound(finished.response.exc, finished.airport_code)
  /\ flights_cache # <<>>

\* C6: the order of the live entries is the order of their last use (a
\* write or a read that hit), and a write of a new key into a cache that
\* holds CACHE_MAXSIZE live entries removes exactly the first of that order
\* and keeps the others.
C6_EvictsLeastRecentlyUsed ==
  [][LET live == LiveOrder(flights_cache, now)
         after == LiveOrder(flights_cache', now')
         q == finished'
         k == CacheKey(q.airport_code)
         full == k \notin Range(live) /\ Len(live) = CACHE_MAXSIZE
     IN IF Finishes(q) /\ q.writes = 1
        THEN /\ after = (IF full THEN Tail(live) ELSE Remove(live, k)) \o <<k>>
             /\ {l.key : l \in q.evicted} = (IF full THEN {Head(live)} ELSE {})
        ELSE IF Finishes(q) /\ TookHitBranch(q) /\ Succeeded(q)
        THEN after = Remove(live, k) \o <<k>>
        ELSE after = SelectSeq(live, LAMBDA x : x \in Range(after))]_vars

\* The entry that went was written after the one that stayed: the one that
\* stayed was read since.
C6_Witness ==
  /\ finished.pc = "done"
  /\ finished.writes = 1
  /\ \E gone \in finished.evicted, kept \in LinkSet(flights_cache) :
       kept.stored < gone.stored

\* C7: the cache never holds more than CACHE_MAXSIZE entries nor two entries
\* of one key, and the sizes health_check reports never exceed the maxsize
\* it reports.
C7_CacheBounded ==
  /\ Len(flights_cache) <= CACHE_MAXSIZE
  /\ \A i, j \in 1..Len(flights_cache) :
       flights_cache[i].key = flights_cache[j].key => i = j
  /\ LET report == HealthReport(flights_cache, now) IN
       /\ report.current_size <= report.maxsize
       /\ report.cache_size <= report.maxsize

C7_Witness ==
  /\ HealthReport(flights_cache, now).current_size = CACHE_MAXSIZE
  /\ finished.writes = 1
  /\ finished.evicted # {}

\* C8: the upstream calls that hold a pool connection at one time are never
\* more than CONCURRENT_REQUESTS.
C8_PoolCeiling == InFlight <= CONCURRENT_REQUESTS

C8_Witness ==
  /\ InFlight = CONCURRENT_REQUESTS
  /\ \E q \in Requests : q.pc = "connecting"

\* C9 as stated: a step taken while a lookup waits for a connection at the
\* ceiling never ends that lookup.
C9_NeverFailsWaiting ==
  [][\A q \in Requests :
       (q.pc = "connecting" /\ ~HasFreeSlot(q.session)) =>
         ~(Finishes(finished') /\ CopiesIn(q, open') < CopiesIn(q, open))]_vars

\* C9 as amended: a lookup that waits for a connection is never turned away.
\* It leaves the wait in two ways only: with a connection, given while one
\* was free, to make its upstream call; or by the time-out of its call,
\* which counts from the entry of session.get, the wait included, and ends
\* the lookup with the time-out error.
C9_WaitsOrTimesOut ==
  [][\A q \in Requests :
       (q.pc = "connecting" /\ CopiesIn(q, open') < CopiesIn(q, open)) =>
         \/ /\ HasFreeSlot(q.session)
            /\ finished' = finished
            /\ open' = (open (-) One(q)) (+) One([q EXCEPT !.pc = "inflight", !.calls = 1])
         \/ /\ Finishes(finished')
            /\ finished'.response.handler = "TimeoutError"
            /\ finished'.calls = 0
            /\ now >= q.deadline]_vars

C9_Witness ==
  /\ TookMissBranch(finished)
  /\ finished.calls = 0
  /\ finished.response.handler = "TimeoutError"
  /\ InFlight = CONCURRENT_REQUESTS

\* What the specification of the aggregation calls a record that resolves:
\* every step of the path is a dict that has the key, and the leaf is a
\* string that is not empty.
Absent == [t |-> "absent", v |-> <<>>]

RECURSIVE Resolve(_, _)
Resolve(node, path) ==
  IF path = <<>> THEN node
  ELSE IF node.t = "dict" /\ Head(path) \in DOMAIN node.v
       THEN Resolve(node.v[Head(path)], Tail(path))
       ELSE Absent

ArrivalsOf(element) ==
  LET d == Resolve(element, ElementPath) IN IF d.t = "list" THEN d.v ELSE <<>>

NamedRecord(record) ==
  LET n == Resolve(record, FlightPath) IN n.t = "str" /\ n.v # ""

NoNamedRecord(data) ==
  data.t = "list" =>
    \A i \in 1..Len(data.v) :
      \A j \in 1..Len(ArrivalsOf(data.v[i])) : ~NamedRecord(ArrivalsOf(data.v[i])[j])

\* C10: for a body in which no arrival record resolves to a country name
\* that is present and not empty, the aggregation fails with NoDataFound
\* carrying the airport code; and it never returns an empty ranked result.
C10_NoNamesNoData ==
  aggOut # Pending =>
    /\ NoNamedRecord(aggIn.data) => NoDataFound(aggOut.exc, aggIn.airport_code)
    /\ aggOut.exc = NoExc => aggOut.value # <<>>

\* The names of the records that resolve, in the order of the body: airport
\* object by airport object, record by record.
RECURSIVE NamesIn(_)
NamesIn(records) ==
  IF records = <<>> THEN <<>>
  ELSE (IF NamedRecord(Head(records))
        THEN <<Resolve(Head(records), FlightPath).v>> ELSE <<>>)
         \o NamesIn(Tail(records))

RECURSIVE NamesOf(_)
NamesOf(items) ==
  IF items = <<>> THEN <<>>
  ELSE NamesIn(ArrivalsOf(Head(items))) \o NamesOf(Tail(items))

NamesOfBody(data) == IF data.t = "list" THEN NamesOf(data.v) ELSE <<>>

\* How often name occurs in names, and where it occurs first.
Occurrences(names, name) == Cardinality({i \in 1..Len(names) : names[i] = name})
FirstSeen(names, name) == CHOOSE i \in 1..Len(names) :
  names[i] = name /\ \A j \in 1..(i - 1) : names[j] # name

RECURSIVE SumCounts(_)
SumCounts(ranked) ==
  IF ranked = <<>> THEN 0 ELSE Head(ranked)[2] + SumCounts(Tail(ranked))

\* C11: for a body that is a list, a node that is missing, null or of the
\* wrong type on the path to the arrivals or on the path to the country name
\* never makes the aggregation raise: it ends with a ranked result or with
\* NoDataFound, and the records that do resolve are counted, so a body that
\* has one returns a result.
C11_BrokenNodesTolerated ==
  (aggOut # Pending /\ aggIn.data.t = "list") =>
    /\ aggOut.exc = NoExc \/ NoDataFound(aggOut.exc, aggIn.airport_code)
    /\ NamesOfBody(aggIn.data) # <<>> => aggOut.exc = NoExc

\* C12: every ranked result the aggregation returns is in descending order
\* of count, and of two countries with the same count the one first met in
\* the body comes first.
C12_RankedAndStable ==
  (aggOut # Pending /\ aggOut.exc = NoExc) =>
    LET ranked == aggOut.value
        names == NamesOfBody(aggIn.data)
    IN \A i, j \in 1..Len(ranked) :
         i < j =>
           \/ ranked[i][2] > ranked[j][2]
           \/ /\ ranked[i][2] = ranked[j][2]
              /\ FirstSeen(names, ranked[i][1]) < FirstSeen(names, ranked[j][1])

\* Three countries: the one met last leads with two arrivals, and the two
\* with one arrival follow in the order they were met, Spain before France.
C12_Witness ==
  /\ aggOut # Pending
  /\ aggOut.exc = NoExc
  /\ Len(aggOut.value) = 3
  /\ aggOut.value[1][2] > aggOut.value[2][2]
  /\ aggOut.value[2] = <<"Spain", 1>>
  /\ aggOut.value[3] = <<"France", 1>>
  /\ NamesOfBody(aggIn.data)[1] = "Spain"

\* C13: the ranked result of a body has exactly one entry for each country
\* name that some record resolves to, the count of an entry is the number of
\* records that resolve to its name, and the counts add up to the number of
\* records that resolve; a record with a broken path or an empty name adds
\* nothing.
C13_CountsNamedRecords ==
  LET names == NamesOfBody(aggIn.data) IN
  (aggOut # Pending /\ names # <<>>) =>
    /\ aggOut.exc = NoExc
    /\ {aggOut.value[i][1] : i \in 1..Len(aggOut.value)} = Range(names)
    /\ \A i, j \in 1..Len(aggOut.value) :
         aggOut.value[i][1] = aggOut.value[j][1] => i = j
    /\ \A i \in 1..Len(aggOut.value) :
         aggOut.value[i][2] = Occurrences(names, aggOut.value[i][1])
    /\ SumCounts(aggOut.value) = Len(names)

\* The two cases of the letters, written out: upper case first.
Cases ==
  { <<"J", "j">>, <<"F", "f">>, <<"K", "k">>,
    <<"L", "l">>, <<"A", "a">>, <<"X", "x">> }

SameLetter(c, d) == c = d \/ <<c, d>> \in Cases \/ <<d, c>> \in Cases
SameUpToCase(a, b) ==
  Len(a) = Len(b) /\ \A i \in 1..Len(a) : SameLetter(a[i], b[i])

UpperForm(code) ==
  [i \in 1..Len(code) |->
     IF \E p \in Cases : p[2] = code[i]
     THEN (CHOOSE p \in Cases : p[2] = code[i])[1] ELSE code[i]]
LowerForm(code) ==
  [i \in 1..Len(code) |->
     IF \E p \in Cases : p[1] = code[i]
     THEN (CHOOSE p \in Cases : p[1] = code[i])[2] ELSE code[i]]

\* The request q of the next state was started by this step.
Starts(q) ==
  q \in BagToSet(open') /\ CopiesIn(q, open') > CopiesIn(q, open) /\ q.calls = 0

\* Inputs of length 3 that differ only in case get one key from get_flights.
OneKeyPerCode ==
  \A a, b \in Inputs :
    (ValidLength(a) /\ ValidLength(b) /\ SameUpToCase(a, b)) =>
      /\ CacheKey(Upper(a)) = CacheKey(Upper(b))
      /\ CacheKey(Upper(a)) = <<"flights_">> \o UpperForm(b)

\* C14: inputs of length 3 that differ only in the case of their letters
\* have one cache key, the upper-case form: an entry is written under the
\* upper-case form of the code of the lookup that wrote it, and a lookup
\* takes the hit branch exactly when the cache holds a live entry written
\* by a lookup of its code in either case; and the query of every upstream
\* call carries the lower-case form of the code.
C14_CaseInsensitive ==
  [][/\ OneKeyPerCode
     /\ \A l \in LinkSet(flights_cache') \ LinkSet(flights_cache) :
          l.key = <<"flights_">> \o UpperForm(l.by)
     /\ \A q \in BagToSet(open') :
          Starts(q) =>
            /\ q.pc = "hit" <=>
                 \E l \in LinkSet(flights_cache) :
                   now < l.expires /\ SameUpToCase(l.by, q.input)
            /\ q.pc # "hit" => q.iata = LowerForm(q.input)
     /\ \A q \in BagToSet(open') :
          q.pc \in {"connecting", "inflight"} => q.iata = LowerForm(q.input)]_vars

\* A lookup of jfk has been answered from the entry that a lookup of JFK
\* wrote, without a call of its own, while the call of a lookup of LAX
\* carries lax.
C14_Witness ==
  /\ finished.input = <<"j", "f", "k">>
  /\ TookHitBranch(finished)
  /\ Succeeded(finished)
  /\ finished.calls = 0
  /\ \E l \in LinkSet(flights_cache) :
       /\ l.by = <<"J", "F", "K">>
       /\ l.key = CacheKey(finished.airport_code)
       /\ l.value = finished.response.flights
  /\ \E q \in Requests :
       q.pc = "inflight" /\ q.input = <<"L", "A", "X">> /\ q.iata = <<"l", "a", "x">>

\* The failures of the upstream call, by the exception that carries them.
UpstreamTimeout(exc) == exc.type = "TimeoutError"
UpstreamUnavailable(exc) == exc.type = "ClientError"
MalformedResponse(exc) == exc.type = "JSONDecodeError"

\* C15: a failure is answered as what it is.  The clause that answers the
\* errors of validation (InvalidAirportCode and NoDataFound, except
\* ValueError) answers nothing else; the clause of the time-out answers the
\* time-outs and nothing else; an unavailable upstream and a body that does
\* not parse are answered by neither of the two.
C15_KindsKept ==
  (finished.pc = "done" /\ ErrorResponse(finished.response)) =>
    LET resp == finished.response IN
    /\ resp.handler = "ValueError" =>
         \/ InvalidAirportCode(resp)
         \/ NoDataFound(resp.exc, finished.airport_code)
    /\ resp.handler = "TimeoutError" <=> UpstreamTimeout(resp.exc)
    /\ NoDataFound(resp.exc, finished.airport_code) => resp.handler = "ValueError"
    /\ (UpstreamUnavailable(resp.exc) \/ MalformedResponse(resp.exc)) =>
         resp.handler = "Exception"

Started(q) == q.deadline - CLIENT_TIMEOUT

\* C17: lookups in flight are not joined.  A lookup that misses gets a call
\* of its own whatever the other open lookups are for, and a lookup whose
\* call returned a result writes it under its key whether or not a live
\* entry of that key is held: the entry is then the one just written, due
\* to expire CACHE_TTL from now.
C17_NoCoalescing ==
  [][/\ \A q \in BagToSet(open') :
          (Starts(q) /\ ~Contains(flights_cache, CacheKey(q.airport_code), now))
            => (q.pc = "connecting" /\ q.iata # <<>>)
     /\ \A q \in {finished'} :
          (Finishes(q) /\ TookMissBranch(q) /\ Succeeded(q)) =>
            /\ q.calls = 1 /\ q.writes = 1
            /\ HasLink(flights_cache', CacheKey(q.airport_code))
            /\ LET l == LinkOf(flights_cache', CacheKey(q.airport_code)) IN
                 /\ l.value = q.response.flights
                 /\ l.stored = now
                 /\ l.expires = now + CACHE_TTL
                 /\ l.by = q.input]_vars

\* Two lookups of one code were open together and both missed; the first
\* wrote the entry while the second was open, and the second, with a call
\* of its own, has now written over that live entry and moved its expiry.
C17_Witness ==
  /\ TookMissBranch(finished)
  /\ Succeeded(finished)
  /\ finished.calls = 1
  /\ finished.writes = 1
  /\ \E old \in finished.replaced :
       /\ old.key = CacheKey(finished.airport_code)
       /\ old.by = finished.input
       /\ old.stored >= Started(finished)
       /\ old.stored < now
       /\ LinkOf(flights_cache, old.key).expires > old.expires

\* C18: whatever the order of the start-up hook and the lookups, no more
\* than one session is ever created; once the global holds it, it holds it
\* for good; every lookup that asked for the pool uses the session the
\* global holds; and a session is closed by the shutdown hook only, when no
\* lookup is open.
C18_OnePool ==
  [][/\ sessions' <= 1
     /\ session_pool' \in {0, sessions'}
     /\ session_pool # 0 => (session_pool' = session_pool /\ sessions' = sessions)
     /\ \A q \in BagToSet(open') \cup {finished'} :
          /\ q.session \in {0, session_pool'}
          /\ q.pc \in {"connecting", "inflight"} => q.session = session_pool'
     /\ closed' # closed =>
          /\ phase = "serving" /\ phase' = "stopped"
          /\ open = EmptyBag /\ open' = EmptyBag
          /\ closed' = closed \cup {session_pool}]_vars

\* Before the start-up hook has run, two lookups are open on the one
\* session that the first of them made.
C18_Witness ==
  /\ phase = "init"
  /\ sessions = 1
  /\ session_pool = 1
  /\ BagCardinality(open) = 2
  /\ \A q \in Requests : q.pc \in {"connecting", "inflight"} /\ q.session = 1

\* C19: a lookup whose membership test found its key ends with a result and
\* never with an error, whatever the clock does between the test and the
\* read.
C19_CheckThenRead ==
  \A q \in AllRequests :
    TookHitBranch(q) => (q.response.handler = "" /\ q.response.exc = NoExc)

\* The answer of a lookup is one thing: the flights, or the error of one
\* except clause.
OneOutcome(q) ==
  /\ q.pc = "done"
  /\ q.response.handler \in {"", "ValueError", "TimeoutError", "Exception"}
  /\ q.response.handler = "" <=> q.response.exc = NoExc
  /\ q.response.handler = "" <=> q.response.flights # <<>>

\* C20: every lookup ends, and ends once.  A request leaves the open ones
\* only to go on with its call or to return one outcome, and it is that
\* request and no other that the step takes; and the lookups that are open
\* with a given deadline (0 for the lookups on the hit branch, which have
\* none) are all gone at some later time, those that wait for a connection
\* of a pool at its ceiling included.
C20_EveryLookupCompletes ==
  /\ [][\A q \in Requests :
          CopiesIn(q, open') < CopiesIn(q, open) =>
            \/ /\ q.pc = "connecting"
               /\ finished' = finished
               /\ open' = (open (-) One(q))
                             (+) One([q EXCEPT !.pc = "inflight", !.calls = 1])
            \/ /\ Finishes(finished')
               /\ OneOutcome(finished')
               /\ finished'.input = q.input
               /\ finished'.deadline = q.deadline
               /\ open' = open (-) One(q)]_vars
  /\ \A d \in 0..(MaxTime + CLIENT_TIMEOUT) :
       (\E q \in Requests : q.deadline = d) ~> (\A q \in Requests : q.deadline # d)

\* A lookup that waited for a connection of the pool at its ceiling has
\* ended, by its time-out, while the call that holds the connection is
\* still within its own time.
C20_Witness ==
  /\ OneOutcome(finished)
  /\ TookMissBranch(finished)
  /\ finished.calls = 0
  /\ finished.deadline = now
  /\ \E q \in Requests :
       q.pc = "inflight" /\ q.session = finished.session /\ q.deadline > now

====
